---- MODULE Spec2Model ----
(***************************************************************************)
(* utm_receiver: a FastAPI application (server/src/main.py) that records   *)
(* the utm_* query parameters of GET /track in the PostgreSQL table        *)
(* utm_clicks through the storage gateway Database (server/src/db.py).     *)
(*                                                                         *)
(* Tasks are asyncio coroutines: a step of the model is the code a task    *)
(* runs between two awaits.  Strings the code inspects character by        *)
(* character (query keys) are sequences of one-character strings.          *)
(* Non-ASCII characters of the source are written [U+xxxx].                *)
(***************************************************************************)
EXTENDS Integers, Sequences, FiniteSets, TLC

(* ------------------------------ bounds --------------------------------- *)

\* concurrent request handlers the ASGI server runs
NumSlots == 2
\* requests (/track and /health) the server accepts in one run
MaxRequests == 2
\* pools asyncpg.create_pool hands out in one run
MaxPools == 2
\* key-value pairs of a query string
MaxQueryLen == 2
\* direct calls of Database.disconnect by a host other than lifespan
MaxApiCalls == 2

(* ------------------------------ tasks ---------------------------------- *)

\* the lifespan coroutine of main.py
Life == 0
Slots == 1 .. NumSlots
\* a caller that drives the gateway's disconnect() directly
Api == NumSlots + 1
Tasks == {Life, Api} \cup Slots
PoolIds == 1 .. MaxPools
\* Database.pool = None
None == 0

VARIABLES
    lifespanOn,   \* the ASGI server runs the lifespan protocol (uvicorn --lifespan on|off)
    urlSet,       \* DATABASE_URL is set in the environment
    pc,           \* pc[t]: the await a task is suspended at
    conn,         \* conn[t]: the pool whose connection / close() task t awaits
    req,          \* req[t]: the request slot t is handling
    resp,         \* resp[t]: the response slot t returned last
    started,      \* requests accepted so far
    dbPool,       \* Database.pool of the global db (None or a pool id)
    pools,        \* pools[p]: "none" | "open" | "closed" (asyncpg pools created)
    nPools,       \* create_pool calls that returned a pool
    created,      \* pools on which CREATE TABLE IF NOT EXISTS succeeded
    probed,       \* pools on which the SELECT probe succeeded
    dbUp,         \* the PostgreSQL server is reachable
    tableExists,  \* utm_clicks exists in the database
    rows,         \* utm_clicks in insertion order
    nextId,       \* next value of the BIGSERIAL sequence of utm_clicks.id
    apiCalls,     \* direct disconnect() calls made so far
    apiResult     \* outcome of the last disconnect() call that returned

vars == <<lifespanOn, urlSet, pc, conn, req, resp, started, dbPool, pools, nPools,
          created, probed, dbUp, tableExists, rows, nextId, apiCalls, apiResult>>

(* ------------------------- query parameters ---------------------------- *)

utm_source == <<"u", "t", "m", "_", "s", "o", "u", "r", "c", "e">>
utm_bare == <<"u", "t", "m", "_">>
utm_noscore == <<"u", "t", "m">>
ref == <<"r", "e", "f">>
xutm_id == <<"x", "u", "t", "m", "_", "i", "d">>

\* the key-value pairs query strings are built from
Pairs ==
    { <<utm_source, <<"a">>>>, <<utm_source, <<"b">>>>, <<utm_bare, <<"a">>>>,
      <<utm_noscore, <<"a">>>>, <<ref, <<"a">>>>, <<xutm_id, <<"a">>>> }

RECURSIVE SeqsUpTo(_, _)
SeqsUpTo(S, n) ==
    IF n = 0 THEN {<<>>}
    ELSE LET shorter == SeqsUpTo(S, n - 1)
         IN  shorter \cup {Append(s, x) : s \in {z \in shorter : Len(z) = n - 1}, x \in S}

\* every query string of at most MaxQueryLen pairs, as parse_qsl lists it
Queries == SeqsUpTo(Pairs, MaxQueryLen)

\* the query strings the concurrent model serves
ServedQueries == { <<>>, << <<utm_source, <<"a">>>>, <<ref, <<"a">>>> >> }

\* 'utm_'
UtmPrefix == <<"u", "t", "m", "_">>

\* a prefix test that leaves out the prefix's last character
StartsWithNoUnderscore(k, prefix) ==
    /\ Len(k) >= Len(prefix) - 1
    /\ SubSeq(k, 1, Len(prefix) - 1) = SubSeq(prefix, 1, Len(prefix) - 1)

\* str.startswith
StartsWith(k, prefix) ==
    /\ Len(k) >= Len(prefix)
    /\ SubSeq(k, 1, Len(prefix)) = prefix

\* a dict that keeps the first value of a key
DictSetFirstWins(d, k, v) ==
    IF \E i \in 1 .. Len(d) : d[i][1] = k THEN d ELSE Append(d, <<k, v>>)

\* a Python dict is a sequence of <<key, value>> with distinct keys, in
\* insertion order; d[k] = v overwrites in place or appends
DictSet(d, k, v) ==
    IF \E i \in 1 .. Len(d) : d[i][1] = k
    THEN [i \in 1 .. Len(d) |-> IF d[i][1] = k THEN <<k, v>> ELSE d[i]]
    ELSE Append(d, <<k, v>>)

\* {k: v for k, v in pairs}
RECURSIVE DictOf(_)
DictOf(pairs) ==
    IF pairs = <<>> THEN <<>>
    ELSE LET n == Len(pairs)
         IN  DictSet(DictOf(SubSeq(pairs, 1, n - 1)), pairs[n][1], pairs[n][2])

\* request.query_params.items(): the items of the multi-dict's inner dict
QueryParamsItems(q) == DictOf(q)

IsUtm(p) == StartsWith(p[1], UtmPrefix)

\* utm_params = {k: v for k, v in request.query_params.items() if k.startswith('utm_')}
UtmParams(q) == DictOf(SelectSeq(QueryParamsItems(q), IsUtm))

\* json.dumps(utm_params): the members of the JSON object text, in dict order
JsonDumps(d) == [i \in 1 .. Len(d) |-> [name |-> d[i][1], value |-> d[i][2]]]

\* the JSONB value PostgreSQL stores for a JSON object text: a mapping
Jsonb(text) ==
    [k \in {text[i].name : i \in 1 .. Len(text)} |->
        text[CHOOSE i \in 1 .. Len(text) :
                /\ text[i].name = k
                /\ \A j \in (i + 1) .. Len(text) : text[j].name # k].value]

(* ------------------------------ responses ------------------------------ *)

\* "<li>[U+2022] {0}: {1}</li>".format(key, value)
Li(key, value) == <<"<li>[U+2022] ">> \o key \o <<": ">> \o value \o <<"</li>">>

NoParamsItem == <<"<li>[U+2022] No UTM parameters detected</li>">>

\* utm_html_items
HtmlItems(d) ==
    IF d # <<>> THEN [i \in 1 .. Len(d) |-> Li(d[i][1], d[i][2])]
    ELSE <<NoParamsItem>>

\* the error page of the inner handler (except Exception as db_error)
ErrorHtmlDb ==
    << "<!DOCTYPE html>",
       "<html>",
       "<head>",
       "    <title>UTM Receiver - Error</title>",
       "    <style>",
       "        body { font-family: Arial, sans-serif; max-width: 600px; margin: 50px auto; padding: 20px; text-align: center; }",
       "        .error { color: #dc3545; font-weight: bold; }",
       "    </style>",
       "</head>",
       "<body>",
       "    <h1>[U+1F4CA] UTM Receiver</h1>",
       "    <p class=\"error\">Failed to log UTM parameters. Please try again later.</p>",
       "</body>",
       "</html>" >>

\* the error page of the outer handler (except Exception as e)
ErrorHtmlOuter ==
    << "<!DOCTYPE html>",
       "<html>",
       "<head>",
       "    <title>UTM Receiver - Error</title>",
       "    <style>",
       "        body { font-family: Arial, sans-serif; max-width: 600px; margin: 50px auto; padding: 20px; text-align: center; }",
       "        .error { color: #dc3545; font-weight: bold; }",
       "    </style>",
       "</head>",
       "<body>",
       "    <h1>[U+1F4CA] UTM Receiver</h1>",
       "    <p class=\"error\">Failed to log UTM parameters. Please try again later.</p>",
       "</body>",
       "</html>" >>

\* html_template around the list: the lines that identify the success page
SuccessHtml ==
    << "<!DOCTYPE html>",
       "    <title>UTM Receiver</title>",
       "        Your visit has been recorded successfully.",
       "        <h3>Captured parameters:</h3>",
       "        <ul>",
       "            {0}",
       "        </ul>",
       "</html>" >>

HtmlResponse(content, list, status_code) ==
    [status |-> status_code, media |-> "text/html", body |-> content, items |-> list]

NoResponse == [status |-> 0, media |-> "", body |-> <<>>, items |-> <<>>]

\* a health check that answers for the storage
HealthResponseUnlessNoPool ==
    IF dbPool = None
    THEN [status |-> 503, media |-> "application/json",
          body |-> <<"{\"status\":\"unavailable\"}">>, items |-> <<>>]
    ELSE [status |-> 200, media |-> "application/json",
          body |-> <<"{\"status\":\"ok\"}">>, items |-> <<>>]

\* return {"status": "ok"}
HealthResponse ==
    [status |-> 200, media |-> "application/json",
     body |-> <<"{\"status\":\"ok\"}">>, items |-> <<>>]

SuccessResponse(d) == HtmlResponse(SuccessHtml, HtmlItems(d), 200)

\* the error page returned without status_code=500
DbErrorResponseDefaultStatus == HtmlResponse(ErrorHtmlDb, <<>>, 200)

\* return HTMLResponse(content=error_html, status_code=500) of the inner except
DbErrorResponse == HtmlResponse(ErrorHtmlDb, <<>>, 500)

\* the framework's own answer to an exception no handler caught
UnexpectedErrorResponseBare == HtmlResponse(<<"Internal Server Error">>, <<>>, 500)

\* return HTMLResponse(content=error_html, status_code=500) of the outer except
UnexpectedErrorResponse == HtmlResponse(ErrorHtmlOuter, <<>>, 500)

(* ------------------------------- state --------------------------------- *)

\* request.client.host of a request that has a client
ClientHost == "203.0.113.7"

\* ip = None, stored as SQL NULL
NullAddress == "NULL"

NoRequest == [rid |-> 0, kind |-> "none", query |-> <<>>, client |-> FALSE, utm_params |-> <<>>]

\* db = Database(); nothing has run yet
Init ==
    /\ lifespanOn \in BOOLEAN
    /\ urlSet \in BOOLEAN
    /\ pc = [t \in Tasks |-> IF t = Life /\ ~lifespanOn THEN "off" ELSE "idle"]
    /\ conn = [t \in Tasks |-> None]
    /\ req = [t \in Slots |-> NoRequest]
    /\ resp = [t \in Slots |-> NoResponse]
    /\ started = 0
    /\ dbPool = None
    /\ pools = [p \in PoolIds |-> "none"]
    /\ nPools = 0
    /\ created = {}
    /\ probed = {}
    /\ dbUp \in BOOLEAN
    /\ tableExists \in BOOLEAN
    /\ rows = <<>>
    /\ nextId = 1
    /\ apiCalls = 0
    /\ apiResult = "none"

\* the server hands requests to the application: after lifespan startup
\* completed (the yield of lifespan), or at once when it runs no lifespan
Serving == pc[Life] \in {"yield", "off"}

SlotFree(t) == pc[t] \in {"idle", "done"}

\* the handler a new request runs in: the first one that is not busy
Accepts(t) == SlotFree(t) /\ \A u \in Slots : u < t => ~SlotFree(u)

\* a connection of pool p can be acquired and a statement sent on it
PoolUsable(p) == p # None /\ pools[p] = "open" /\ dbUp

\* a task is inside Database.connect
InConnect(t) == pc[t] \in {"create_pool", "create_table", "probe"}

(* ------------------------- Database.connect ---------------------------- *)

\* an exception leaves connect(): lifespan startup fails and the server does
\* not serve; in a request, insert_click propagates it to track_utm's inner
\* except, which returns the error page
ConnectRaises(t) ==
    /\ pc' = [pc EXCEPT ![t] = IF t = Life THEN "aborted" ELSE "done"]
    /\ conn' = [conn EXCEPT ![t] = None]
    /\ resp' = IF t = Life THEN resp
               ELSE [resp EXCEPT ![t] = DbErrorResponse]

\* connect() up to its first await: the DATABASE_URL check, then create_pool
ConnectBegin(t) ==
    IF ~urlSet
    THEN ConnectRaises(t)
    ELSE /\ pc' = [pc EXCEPT ![t] = "create_pool"]
         /\ conn' = conn
         /\ resp' = IF t = Life THEN resp ELSE [resp EXCEPT ![t] = NoResponse]

\* self.pool = await asyncpg.create_pool(DATABASE_URL), then the acquire of
\* the CREATE TABLE block on the pool just stored
CreatePoolDone ==
    \E t \in Slots \cup {Life} :
        /\ pc[t] = "create_pool"
        /\ ~dbUp \/ nPools < MaxPools
        /\ IF dbUp
           THEN /\ nPools' = nPools + 1
                /\ pools' = [pools EXCEPT ![nPools + 1] = "open"]
                /\ dbPool' = nPools + 1
                /\ conn' = [conn EXCEPT ![t] = nPools + 1]
                /\ pc' = [pc EXCEPT ![t] = "create_table"]
                /\ resp' = resp
           ELSE /\ ConnectRaises(t)
                /\ UNCHANGED <<nPools, pools, dbPool>>
        /\ UNCHANGED <<lifespanOn, urlSet, req, started, created, probed, dbUp,
                       tableExists, rows, nextId, apiCalls, apiResult>>

\* await connection.execute(create_table_query), then the acquire of the
\* verification block on whatever self.pool is by then
CreateTableDone ==
    \E t \in Slots \cup {Life} :
        /\ pc[t] = "create_table"
        /\ IF PoolUsable(conn[t])
           THEN /\ tableExists' = TRUE
                /\ created' = created \cup {conn[t]}
                /\ IF dbPool = None
                   THEN ConnectRaises(t)
                   ELSE /\ conn' = [conn EXCEPT ![t] = dbPool]
                        /\ pc' = [pc EXCEPT ![t] = "probe"]
                        /\ resp' = resp
           ELSE /\ ConnectRaises(t)
                /\ UNCHANGED <<tableExists, created>>
        /\ UNCHANGED <<lifespanOn, urlSet, req, started, dbPool, pools, nPools, probed,
                       dbUp, rows, nextId, apiCalls, apiResult>>

\* the task's next await after connect() returned: lifespan yields; insert_click
\* acquires a connection of self.pool for the INSERT
AfterConnect(t) ==
    IF t = Life
    THEN /\ pc' = [pc EXCEPT ![t] = "yield"]
         /\ conn' = [conn EXCEPT ![t] = None]
         /\ resp' = resp
    ELSE IF dbPool = None
         THEN ConnectRaises(t)
         ELSE /\ pc' = [pc EXCEPT ![t] = "insert"]
              /\ conn' = [conn EXCEPT ![t] = dbPool]
              /\ resp' = resp

\* await connection.execute("SELECT 1 FROM utm_clicks LIMIT 1"); return self.pool
ProbeDone ==
    \E t \in Slots \cup {Life} :
        /\ pc[t] = "probe"
        /\ IF PoolUsable(conn[t]) /\ tableExists
           THEN /\ probed' = probed \cup {conn[t]}
                /\ AfterConnect(t)
           ELSE /\ ConnectRaises(t)
                /\ probed' = probed
        /\ UNCHANGED <<lifespanOn, urlSet, req, started, dbPool, pools, nPools, created,
                       dbUp, tableExists, rows, nextId, apiCalls, apiResult>>

(* ------------------- track_utm and Database.insert_click --------------- *)

\* the row the INSERT adds: id from the BIGSERIAL sequence, utm_params the
\* JSONB of json.dumps(utm_params), ip_address the ip argument; rid names the
\* request that made the row (not a column)
NewRow(r, id) ==
    [id |-> id, utm_params |-> Jsonb(JsonDumps(r.utm_params)),
     ip_address |-> IF r.client THEN ClientHost ELSE NullAddress, rid |-> r.rid]

\* the INSERT sent a second time
InsertRowTwice(table, row) == Append(Append(table, row), [row EXCEPT !.id = row.id + 1])

\* INSERT INTO utm_clicks ... : one row appended
InsertRow(table, row) == Append(table, row)

\* nextval of the id sequence
Nextval(id) == id + 1

\* GET /track up to its first await: the filter, the client lookup, the
\* headers, then insert_click with its lazy connect or its acquire
Track(t, q, client) ==
        /\ Serving
        /\ Accepts(t)
        /\ started < MaxRequests
        /\ started' = started + 1
        /\ req' = [req EXCEPT ![t] = [rid |-> started + 1, kind |-> "track", query |-> q,
                                      client |-> client, utm_params |-> UtmParams(q)]]
        /\ IF ~client
           THEN \* request.client is None: AttributeError, the outer except
                /\ resp' = [resp EXCEPT ![t] = UnexpectedErrorResponse]
                /\ pc' = [pc EXCEPT ![t] = "done"]
                /\ conn' = conn
           ELSE IF dbPool = None
                THEN \* if not self.pool: await self.connect()
                     IF ~urlSet
                     THEN /\ resp' = [resp EXCEPT ![t] = DbErrorResponse]
                          /\ pc' = [pc EXCEPT ![t] = "done"]
                          /\ conn' = conn
                     ELSE /\ resp' = [resp EXCEPT ![t] = NoResponse]
                          /\ pc' = [pc EXCEPT ![t] = "create_pool"]
                          /\ conn' = conn
                ELSE \* async with self.pool.acquire() as connection
                     /\ resp' = [resp EXCEPT ![t] = NoResponse]
                     /\ pc' = [pc EXCEPT ![t] = "insert"]
                     /\ conn' = [conn EXCEPT ![t] = dbPool]
        /\ UNCHANGED <<lifespanOn, urlSet, dbPool, pools, nPools, created, probed, dbUp,
                       tableExists, rows, nextId, apiCalls, apiResult>>

\* GET /track?<q>, with or without a client address
TrackUtm == \E t \in Slots, q \in ServedQueries, client \in BOOLEAN : Track(t, q, client)

\* the first request of a run, with any query string of Queries
TrackUtmFirst ==
    /\ started = 0
    /\ \E t \in Slots, q \in Queries, client \in BOOLEAN : Track(t, q, client)

\* await connection.execute(query, json.dumps(utm_params), ip, ...), then the
\* rest of track_utm: the success page, or the inner except's error page
InsertDone ==
    \E t \in Slots :
        /\ pc[t] = "insert"
        /\ IF PoolUsable(conn[t]) /\ tableExists
           THEN /\ rows' = InsertRow(rows, NewRow(req[t], nextId))
                /\ nextId' = Nextval(nextId)
                /\ resp' = [resp EXCEPT ![t] = SuccessResponse(req[t].utm_params)]
           ELSE /\ resp' = [resp EXCEPT ![t] = DbErrorResponse]
                /\ UNCHANGED <<rows, nextId>>
        /\ pc' = [pc EXCEPT ![t] = "done"]
        /\ conn' = [conn EXCEPT ![t] = None]
        /\ UNCHANGED <<lifespanOn, urlSet, req, started, dbPool, pools, nPools, created,
                       probed, dbUp, tableExists, apiCalls, apiResult>>

\* GET /health
HealthCheck ==
    \E t \in Slots :
        /\ Serving
        /\ Accepts(t)
        /\ started < MaxRequests
        /\ started' = started + 1
        /\ req' = [req EXCEPT ![t] = [rid |-> started + 1, kind |-> "health", query |-> <<>>,
                                      client |-> TRUE, utm_params |-> <<>>]]
        /\ resp' = [resp EXCEPT ![t] = HealthResponse]
        /\ pc' = [pc EXCEPT ![t] = "done"]
        /\ UNCHANGED <<lifespanOn, urlSet, conn, dbPool, pools, nPools, created, probed,
                       dbUp, tableExists, rows, nextId, apiCalls, apiResult>>

(* --------------------- lifespan and Database.disconnect ---------------- *)

\* lifespan startup: await db.connect()
Startup ==
    /\ pc[Life] = "idle"
    /\ ConnectBegin(Life)
    /\ UNCHANGED <<lifespanOn, urlSet, req, started, dbPool, pools, nPools, created, probed,
                   dbUp, tableExists, rows, nextId, apiCalls, apiResult>>

\* where a caller of disconnect() is once it returned
Returned(t) == IF t = Life THEN "stopped" ELSE "idle"

\* disconnect() up to its await: if self.pool: await self.pool.close()
DisconnectBegin(t) ==
    IF dbPool # None
    THEN /\ pc' = [pc EXCEPT ![t] = "close"]
         /\ conn' = [conn EXCEPT ![t] = dbPool]
         /\ apiResult' = apiResult
    ELSE /\ pc' = [pc EXCEPT ![t] = Returned(t)]
         /\ conn' = conn
         /\ apiResult' = IF t = Api THEN "returned" ELSE apiResult

\* disconnect() without its last line
PoolKept(p) == p

\* self.pool = None
PoolAfterClose(p) == None

\* pool.close() returned; self.pool = None
DisconnectEnd(t) ==
    /\ pc[t] = "close"
    /\ pools' = [pools EXCEPT ![conn[t]] = "closed"]
    /\ dbPool' = PoolAfterClose(dbPool)
    /\ pc' = [pc EXCEPT ![t] = Returned(t)]
    /\ conn' = [conn EXCEPT ![t] = None]
    /\ apiResult' = IF t = Api THEN "returned" ELSE apiResult
    /\ UNCHANGED <<lifespanOn, urlSet, req, resp, started, nPools, created, probed, dbUp,
                   tableExists, rows, nextId, apiCalls>>

\* lifespan shutdown, once the server has drained its requests: await db.disconnect()
Shutdown ==
    /\ pc[Life] = "yield"
    /\ \A t \in Slots : SlotFree(t)
    /\ DisconnectBegin(Life)
    /\ UNCHANGED <<lifespanOn, urlSet, req, resp, started, dbPool, pools, nPools, created,
                   probed, dbUp, tableExists, rows, nextId, apiCalls>>

ShutdownDone == DisconnectEnd(Life)

\* a host calls db.disconnect() itself, whatever the gateway is doing
ApiDisconnect ==
    /\ pc[Api] = "idle"
    /\ apiCalls < MaxApiCalls
    /\ apiCalls' = apiCalls + 1
    /\ DisconnectBegin(Api)
    /\ UNCHANGED <<lifespanOn, urlSet, req, resp, started, dbPool, pools, nPools, created,
                   probed, dbUp, tableExists, rows, nextId>>

ApiDisconnectDone == DisconnectEnd(Api)

(* ----------------------------- environment ----------------------------- *)

\* the PostgreSQL server becomes unreachable, or reachable again
StorageFlip ==
    /\ dbUp' = ~dbUp
    /\ UNCHANGED <<lifespanOn, urlSet, pc, conn, req, resp, started, dbPool, pools, nPools,
                   created, probed, tableExists, rows, nextId, apiCalls, apiResult>>

(* --------------------------- specifications ---------------------------- *)

\* the application under an ASGI server
Next ==
    \/ Startup
    \/ CreatePoolDone
    \/ CreateTableDone
    \/ ProbeDone
    \/ TrackUtm
    \/ InsertDone
    \/ HealthCheck
    \/ Shutdown
    \/ ShutdownDone
    \/ StorageFlip

Spec == Init /\ [][Next]_vars

\* the gateway (startup, /track requests, shutdown) with a host that also
\* calls disconnect() directly; the storage stays as it was at the start
NextGateway ==
    \/ Startup
    \/ CreatePoolDone
    \/ CreateTableDone
    \/ ProbeDone
    \/ TrackUtm
    \/ InsertDone
    \/ Shutdown
    \/ ShutdownDone
    \/ ApiDisconnect
    \/ ApiDisconnectDone

SpecGateway == Init /\ [][NextGateway]_vars

\* track_utm applied to one request whose query string is any of Queries
NextFilter ==
    \/ Startup
    \/ CreatePoolDone
    \/ CreateTableDone
    \/ ProbeDone
    \/ TrackUtmFirst
    \/ InsertDone

SpecFilter == Init /\ [][NextFilter]_vars

(* ------------------------------- claims -------------------------------- *)

IsTrack(t) == req[t].kind = "track"
Done(t) == pc[t] = "done"
\* the rows request number rid made
RowsOf(rid) == {i \in 1 .. Len(rows) : rows[i].rid = rid}
\* slot t returns a response in this step
Returns(t) == pc[t] # "done" /\ pc'[t] = "done"
\* slot t accepts a new request in this step
Accepted(t) == req'[t].rid # req[t].rid
\* the key-value pairs of a dict, and of a stored JSONB document
DictPairs(d) == {d[i] : i \in 1 .. Len(d)}
DocPairs(doc) == {<<k, doc[k]>> : k \in DOMAIN doc}
SeqRange(sq) == {sq[i] : i \in 1 .. Len(sq)}
\* a key that begins with the four characters u t m _
HasUtmPrefix(k) == Len(k) >= 4 /\ k[1] = "u" /\ k[2] = "t" /\ k[3] = "m" /\ k[4] = "_"
\* the document stored for the request of slot t (there is one once it succeeded)
StoredDoc(t) == rows[CHOOSE i \in 1 .. Len(rows) : rows[i].rid = req[t].rid].utm_params
Succeeded(t) == Done(t) /\ IsTrack(t) /\ resp[t].status = 200

\* C1: a /track request that returns the success page (200) has added exactly
\* one row, in the step that returned it; the row's id is greater than every
\* id assigned before; the rows that existed are unchanged; and no other step
\* of the application changes the table, whatever the interleaving.
C1_OneRowPerSuccess ==
    [][ /\ \A t \in Slots :
              (Returns(t) /\ req[t].kind = "track" /\ resp'[t].status = 200) =>
                  /\ Len(rows') = Len(rows) + 1
                  /\ rows'[Len(rows')].rid = req[t].rid
                  /\ RowsOf(req[t].rid) = {}
        /\ \/ rows' = rows
           \/ /\ Len(rows') = Len(rows) + 1
              /\ SubSeq(rows', 1, Len(rows)) = rows
              /\ \A i \in 1 .. Len(rows) : rows[i].id < rows'[Len(rows')].id
              /\ rows'[Len(rows')].id >= nextId
              /\ nextId' > rows'[Len(rows')].id
              /\ \E t \in Slots :
                    /\ Returns(t) /\ req[t].kind = "track" /\ resp'[t].status = 200
                    /\ rows'[Len(rows')].rid = req[t].rid ]_vars

\* C1 witness: two requests that overlapped (the second slot is used only
\* while the first is busy) both returned 200 and the table holds their two rows
C1_Witness ==
    /\ \A t \in Slots : Succeeded(t)
    /\ Len(rows) = 2
    /\ rows[1].id < rows[2].id
    /\ req[1].rid # req[2].rid

\* the storage operation slot t is suspended at cannot succeed
StorageStepFails(t) ==
    \/ pc[t] = "create_pool" /\ ~dbUp
    \/ pc[t] = "create_table" /\ (~PoolUsable(conn[t]) \/ dbPool = None)
    \/ pc[t] = "probe" /\ (~(PoolUsable(conn[t]) /\ tableExists) \/ dbPool = None)
    \/ pc[t] = "insert" /\ ~(PoolUsable(conn[t]) /\ tableExists)

C3_Always200Or500 ==
    /\ \A t \in Slots :
          (Done(t) /\ IsTrack(t)) =>
              /\ resp[t].media = "text/html"
              /\ \/ resp[t].status = 200 /\ resp[t].body = SuccessHtml
                 \/ resp[t].status = 500 /\ resp[t].body = ErrorHtmlDb /\ resp[t].items = <<>>
              /\ ~req[t].client => resp[t].status = 500
    /\ \A t, u \in Slots :
          (Done(t) /\ IsTrack(t) /\ Done(u) /\ IsTrack(u)
             /\ resp[t].status = 500 /\ resp[u].status = 500) => resp[t] = resp[u]

\* C3 witness: one request failed in the storage call, another outside it
C3_Witness ==
    \E t, u \in Slots :
        /\ Done(t) /\ IsTrack(t) /\ req[t].client /\ resp[t].status = 500
        /\ Done(u) /\ IsTrack(u) /\ ~req[u].client /\ resp[u].status = 500

\* the pairs of a query string whose key has the prefix utm_
UtmPairs(q) == {q[i] : i \in {j \in 1 .. Len(q) : HasUtmPrefix(q[j][1])}}

\* of those, the pair of each key's last occurrence
LastUtmPairs(q) ==
    {q[i] : i \in {j \in 1 .. Len(q) :
                      /\ HasUtmPrefix(q[j][1])
                      /\ \A m \in (j + 1) .. Len(q) : q[m][1] # q[j][1]}}

\* the list items of the success page for a set of pairs
PageShows(items, ps) ==
    IF ps = {} THEN items = <<NoParamsItem>>
    ELSE /\ SeqRange(items) = {Li(x[1], x[2]) : x \in ps}
         /\ Len(items) = Cardinality(ps)

\* C4 as stated: for every query string the parameters passed to the storage
\* append, the stored document and the page's list equal exactly the subset
\* of the query's key-value pairs whose key starts with utm_.
C4_ExactSubset ==
    \A t \in Slots :
        Succeeded(t) =>
            /\ DictPairs(req[t].utm_params) = UtmPairs(req[t].query)
            /\ DocPairs(StoredDoc(t)) = UtmPairs(req[t].query)
            /\ PageShows(resp[t].items, UtmPairs(req[t].query))

\* C4 amended: the parameters passed to the storage append, the stored
\* document and the page's list equal the subset of the query's pairs whose
\* key starts with utm_, a key that occurs more than once keeping the pair of
\* its last occurrence; no key without the prefix appears in the document or
\* on the page, and every key with the prefix appears in both.
C4_SubsetLastPerKey ==
    \A t \in Slots :
        Succeeded(t) =>
            LET q == req[t].query
                keys == {q[i][1] : i \in 1 .. Len(q)}
                vals == {q[i][2] : i \in 1 .. Len(q)}
            IN  /\ DictPairs(req[t].utm_params) = LastUtmPairs(q)
                /\ DocPairs(StoredDoc(t)) = LastUtmPairs(q)
                /\ PageShows(resp[t].items, LastUtmPairs(q))
                /\ DOMAIN StoredDoc(t) = {k \in keys : HasUtmPrefix(k)}
                /\ \A k \in keys :
                      IF HasUtmPrefix(k)
                      THEN \E v \in vals : Li(k, v) \in SeqRange(resp[t].items)
                      ELSE \A v \in vals : Li(k, v) \notin SeqRange(resp[t].items)

\* C4 witness: a recorded request whose query has a utm_ key and a key that
\* only resembles one
C4_Witness ==
    \E t \in Slots :
        /\ Succeeded(t)
        /\ \E i, j \in 1 .. Len(req[t].query) :
              /\ req[t].query[i][1] = utm_source
              /\ req[t].query[j][1] \in {utm_noscore, xutm_id}

\* C5 as stated: no deduplication; when the query has the same utm_ key more
\* than once, every one of those pairs is kept in the stored and rendered parameters.
C5_AllDuplicatesKept ==
    \A t \in Slots :
        Succeeded(t) =>
            \A i \in 1 .. Len(req[t].query) :
                HasUtmPrefix(req[t].query[i][1]) =>
                    /\ req[t].query[i] \in DictPairs(req[t].utm_params)
                    /\ Li(req[t].query[i][1], req[t].query[i][2]) \in SeqRange(resp[t].items)

\* C5 amended: when the query has the same utm_ key more than once, exactly
\* one pair of that key is kept in the parameters that are passed on, stored
\* and rendered, and it carries the value of the key's last occurrence.
C5_LastDuplicateKept ==
    \A t \in Slots :
        Succeeded(t) =>
            LET q == req[t].query
                d == req[t].utm_params
            IN  \A i, j \in 1 .. Len(q) :
                    (i < j /\ q[i][1] = q[j][1] /\ HasUtmPrefix(q[j][1])
                       /\ \A m \in (j + 1) .. Len(q) : q[m][1] # q[j][1]) =>
                        /\ Cardinality({n \in 1 .. Len(d) : d[n][1] = q[j][1]}) = 1
                        /\ q[j] \in DictPairs(d)
                        /\ StoredDoc(t)[q[j][1]] = q[j][2]
                        /\ Cardinality({n \in 1 .. Len(resp[t].items) :
                               resp[t].items[n] = Li(q[j][1], q[j][2])}) = 1
                        /\ Len(resp[t].items) = Len(d)

\* C5 witness: a recorded request that carried utm_source twice, with two values
C5_Witness ==
    \E t \in Slots :
        /\ Succeeded(t)
        /\ \E i, j \in 1 .. Len(req[t].query) :
              /\ i < j
              /\ req[t].query[i] = <<utm_source, <<"a">>>>
              /\ req[t].query[j] = <<utm_source, <<"b">>>>

\* C6 as stated: a /track request without a client, arriving while the
\* storage works, is recorded as one row whose client address is null, and
\* the success page is returned.
C6_NoClientStillRecorded ==
    \A t \in Slots :
        (Done(t) /\ IsTrack(t) /\ ~req[t].client /\ PoolUsable(dbPool) /\ tableExists
           /\ dbPool \in created \cap probed) =>
            /\ resp[t].status = 200
            /\ \E i \in 1 .. Len(rows) :
                  /\ RowsOf(req[t].rid) = {i}
                  /\ rows[i].ip_address = NullAddress

\* C7 as stated: at no time do two pools created by this process exist
\* without the earlier one having been closed.
C7_AtMostOneOpenPool == Cardinality({p \in PoolIds : pools[p] = "open"}) <= 1

C9_DisconnectSafe ==
    /\ [][ /\ (apiCalls' # apiCalls /\ dbPool = None) =>
                 /\ pc'[Api] = "idle" /\ apiResult' = "returned"
                 /\ UNCHANGED <<dbPool, pools, nPools, conn, created, probed, dbUp,
                                tableExists, rows, nextId, req, resp>>
           /\ (pc[Life] = "yield" /\ pc'[Life] # "yield" /\ dbPool = None) =>
                 /\ pc'[Life] = "stopped"
                 /\ UNCHANGED <<dbPool, pools, nPools, conn, created, probed, dbUp,
                                tableExists, rows, nextId, req, resp>>
           /\ \A t \in {Life, Api} :
                 (pc[t] = "close" /\ pc'[t] # "close") =>
                     /\ pc'[t] = Returned(t)
                     /\ pools'[conn[t]] = "closed"
                     /\ dbPool' = None
                     /\ t = Api => apiResult' = "returned" ]_vars
    /\ [](apiResult # "raised")

\* C9 witness: two direct calls have returned, one closed the only pool ever
\* created, the other found no pool
C9_Witness ==
    /\ apiCalls = 2 /\ pc[Api] = "idle" /\ apiResult = "returned"
    /\ nPools = 1 /\ pools[1] = "closed" /\ dbPool = None
    /\ pc[Life] = "off"

\* C10 as stated: whenever the gateway holds a pool and no connect call is in
\* progress, CREATE TABLE and the SELECT probe both succeeded on that pool.
C10_PoolImpliesBootstrapped ==
    (Serving /\ dbPool # None /\ \A t \in Tasks : ~InConnect(t)) =>
        dbPool \in created \cap probed

====
